---- MODULE Spec2Model ----
(***************************************************************************)
(* Model of update_zscaler_iplist.py: one run of the script is             *)
(*   validate arguments -> fetch_zscaler_ips -> connect to the PCE ->      *)
(*   create_or_update_iplist -> provision_policy_changes (if updated).     *)
(* The PCE's IP lists persist from one run to the next; the script keeps   *)
(* nothing between runs.                                                   *)
(*                                                                         *)
(* An IPRange is represented by its from_ip string, the only field the     *)
(* script reads (line 65) or writes (line 130).                            *)
(***************************************************************************)
EXTENDS Naturals, Sequences, FiniteSets

\* ------------------------------------------------------------------ bounds

\* Longest range sequence the remote source publishes in one response.
MaxLen == 2
\* Number of consecutive runs of the script that are followed.
MaxRuns == 2

\* --------------------------------------------------------------- constants

\* Range strings. They are opaque tokens to the script, which neither parses nor
\* validates them; "" is the one falsy string.
Ranges == {"1.1.1.0/24", "2.2.2.0/24", ""}

\* The range strings in Python's string order ("" sorts first).
RangePool == <<"", "1.1.1.0/24", "2.2.2.0/24">>

\* Position of a range string in Python's string order.
Ord(s) == CHOOSE i \in 1..Len(RangePool) : RangePool[i] = s

\* Range sequences of bounded length: order and repetition are arbitrary.
RangeLists == UNION {[1..n -> Ranges] : n \in 0..MaxLen}

\* IP list names. The PCE's name filter is a partial match: the first name is
\* contained in the second, the second is not contained in the first.
Names == {"Zscaler", "Zscaler-old"}

\* name filter of GET /ip_lists?name=<filter>: does `name` contain `filter`?
NameMatches(filter, name) == filter = name \/ (filter = "Zscaler" /\ name = "Zscaler-old")

\* Resource references the PCE hands out, in the order it lists resources.
HrefOrder == <<"/ip_lists/1", "/ip_lists/2", "/ip_lists/3">>

Hrefs == {HrefOrder[i] : i \in 1..Len(HrefOrder)}

NoResource == [present |-> FALSE, name |-> "", has_ranges |-> FALSE, ip_ranges |-> <<>>]

NoIPList == [href |-> "", name |-> "", has_ranges |-> FALSE, ip_ranges |-> <<>>]

NoDiff == [compared |-> FALSE, changed |-> FALSE, added |-> {}, removed |-> {}]

\* What the GET of ZSCALER_API_URL can produce, lines 36-40.
\* Responses on which fetch_zscaler_ips raises:
\*   transport_error  requests.get / raise_for_status raise RequestException (line 45)
\*   invalid_json     response.json() raises ValueError (line 48)
\*   not_an_object    the JSON value has no .get: AttributeError, uncaught
\*   prefixes_null    'prefixes' is null: len(None) raises TypeError, uncaught
RaisingResponses == {"transport_error", "invalid_json", "not_an_object", "prefixes_null"}

\* Responses on which fetch_zscaler_ips returns:
\*   no_prefixes      a JSON object without 'prefixes': the default [] of line 40
\*   prefixes_object  'prefixes' is a JSON object: it is returned, and len(),
\*                    iteration and sorted() then see its keys (distinct strings);
\*                    a JSON string is passed on the same way, as its characters
\*   prefixes_list    'prefixes' is a list of strings
ReturningResponses == {"prefixes_list", "no_prefixes", "prefixes_object"}

VARIABLES
    store,          \* PCE: href -> IP list resource (persists across runs)
    iplist_name,    \* args.iplist_name
    runs,           \* number of runs started
    pc,             \* position of the current run
    exit_code,      \* process exit status, meaningful when pc = "exited"
    error,          \* the fatal error that ended the run, "" if none
    response,       \* kind of response the fetch got in this run, "" before
    ip_ranges,      \* result of fetch_zscaler_ips (kept from the previous run until the next fetch)
    prev_ok,        \* the previous run exited 0
    rerun,          \* previous run exited 0 and this run fetched the same sequence
    iplists,        \* hrefs returned by the search, in order
    existing_iplist,\* iplists[0] as read by the search
    diff,           \* what compare_ip_ranges computed
    iplist,         \* resource returned by create_or_update_iplist
    returned,       \* create_or_update_iplist returned
    was_updated,    \* second component of its result
    provision_failed, \* provision_policy_changes caught an exception
    calls           \* external calls issued in this run, in order

vars == <<store, iplist_name, runs, pc, exit_code, error, response, ip_ranges, prev_ok,
          rerun, iplists, existing_iplist, diff, iplist, returned, was_updated,
          provision_failed, calls>>

\* ----------------------------------------------------------- pure helpers

SetOf(s) == {s[i] : i \in 1..Len(s)}

RECURSIVE Insert(_, _)
Insert(x, s) ==
    IF s = <<>> THEN <<x>>
    ELSE IF Ord(x) <= Ord(Head(s)) THEN <<x>> \o s
    ELSE <<Head(s)>> \o Insert(x, Tail(s))

\* Python's sorted() on a list of strings.
RECURSIVE Sorted(_)
Sorted(s) == IF s = <<>> THEN <<>> ELSE Insert(Head(s), Sorted(Tail(s)))

\* Truthiness of a from_ip string.
Truthy(x) == x # ""

RECURSIVE Filter(_)
Filter(s) ==
    IF s = <<>> THEN <<>>
    ELSE IF Truthy(Head(s)) THEN <<Head(s)>> \o Filter(Tail(s))
    ELSE Filter(Tail(s))

\* line 65: sorted([r.from_ip for r in existing_ip_ranges if r.from_ip])
ExistingIps(existing_ip_ranges) == Sorted(Filter(existing_ip_ranges))

\* line 68: sorted(new_ip_ranges)
NewIps(new_ip_ranges) == Sorted(new_ip_ranges)

compare_ip_ranges(existing_ip_ranges, new_ip_ranges) ==
    LET existing_ips == ExistingIps(existing_ip_ranges)
        new_ips == NewIps(new_ip_ranges)
        are_different == existing_ips # new_ips
    IN  [compared |-> TRUE,
         changed |-> are_different,
         added |-> IF are_different THEN SetOf(new_ips) \ SetOf(existing_ips) ELSE {},
         removed |-> IF are_different THEN SetOf(existing_ips) \ SetOf(new_ips) ELSE {}]

\* line 138: existing_iplist.ip_ranges or []
RangesOrEmpty(r) == IF r.has_ranges THEN r.ip_ranges ELSE <<>>

\* Faulty variant of the line-132 test: a list without ranges counts as not found.
Found_nonempty(lst) == lst # <<>> /\ RangesOrEmpty(store[Head(lst)]) # <<>>

\* line 132: if iplists
Found(lst) == lst # <<>>

\* --------------------------------------------------------------- PCE model

RECURSIVE SelectHrefs(_, _)
SelectHrefs(order, filter) ==
    IF order = <<>> THEN <<>>
    ELSE IF store[Head(order)].present /\ NameMatches(filter, store[Head(order)].name)
         THEN <<Head(order)>> \o SelectHrefs(Tail(order), filter)
         ELSE SelectHrefs(Tail(order), filter)

\* pce.ip_lists.get(params={'name': name}): the resources the name filter selects.
SearchResult(name) == SelectHrefs(HrefOrder, name)

FreeHrefs == {h \in Hrefs : ~store[h].present}

\* The reference the PCE gives a new resource.
NextHref == HrefOrder[CHOOSE i \in 1..Len(HrefOrder) :
                /\ HrefOrder[i] \in FreeHrefs
                /\ \A j \in 1..(i-1) : HrefOrder[j] \notin FreeHrefs]

\* IPList(name=iplist_name, description=..., ip_ranges=ip_ranges_objects) as stored.
NewResource(name, rs) == [present |-> TRUE, name |-> name, has_ranges |-> TRUE, ip_ranges |-> rs]

AsIPList(h) == [href |-> h, name |-> store[h].name, has_ranges |-> store[h].has_ranges,
                ip_ranges |-> store[h].ip_ranges]

Call(op, h, ok) == [op |-> op, href |-> h, ok |-> ok]

\* ------------------------------------------------------------------- Init

\* Resources the PCE may hold before the first run (created by an operator or an
\* earlier tool): any name, ranges absent, empty or a single non-empty string.
\* Longer lists, and a range with an empty from_ip, enter the PCE only when a
\* run writes them.
InitResources ==
    {NoResource} \cup
    [present : {TRUE}, name : Names, has_ranges : {FALSE}, ip_ranges : {<<>>}] \cup
    [present : {TRUE}, name : Names, has_ranges : {TRUE},
     ip_ranges : {<<>>} \cup {<<r>> : r \in Ranges \ {""}}]

\* The last reference is free at the start, so that a create always finds one.
Init ==
    /\ store \in {s \in [Hrefs -> InitResources] : ~s[HrefOrder[Len(HrefOrder)]].present}
    /\ iplist_name \in Names
    /\ runs = 1
    /\ pc = "validate"
    /\ exit_code = 0
    /\ error = ""
    /\ response = ""
    /\ ip_ranges = <<>>
    /\ prev_ok = FALSE
    /\ rerun = FALSE
    /\ iplists = <<>>
    /\ existing_iplist = NoIPList
    /\ diff = NoDiff
    /\ iplist = NoIPList
    /\ returned = FALSE
    /\ was_updated = FALSE
    /\ provision_failed = FALSE
    /\ calls = <<>>

\* ---------------------------------------------------------------- actions

\* Faulty variant of the fatal handlers: sys.exit() without the status.
FatalExit_status0(step) ==
    /\ error' = step
    /\ pc' = "exited"
    /\ exit_code' = 0

\* sys.exit(1) after a diagnostic: lines 47, 50, 183, 280, 283, 286, 316; an
\* uncaught exception ends the interpreter with status 1 as well.
FatalExit(step) ==
    /\ error' = step
    /\ pc' = "exited"
    /\ exit_code' = 1

\* main, lines 277-286: a missing host, key or secret is fatal.
ValidateArgs ==
    /\ pc = "validate"
    /\ \E pce_host, api_key, api_secret \in BOOLEAN :
        IF pce_host /\ api_key /\ api_secret
        THEN pc' = "fetch" /\ UNCHANGED <<error, exit_code>>
        ELSE FatalExit("missing_credential")
    /\ UNCHANGED <<store, iplist_name, runs, response, ip_ranges, prev_ok, rerun, iplists,
                   existing_iplist, diff, iplist, returned, was_updated, provision_failed,
                   calls>>


\* fetch_zscaler_ips, lines 34-50, when the request or the parse raises.
FetchFails ==
    /\ pc = "fetch"
    /\ \E kind \in RaisingResponses : response' = kind
    /\ FatalExit("fetch")
    /\ calls' = Append(calls, Call("fetch", "", FALSE))
    /\ ip_ranges' = <<>>
    /\ rerun' = FALSE
    /\ UNCHANGED <<store, iplist_name, runs, prev_ok, iplists, existing_iplist, diff, iplist,
                   returned, was_updated, provision_failed>>

\* line 40: data.get('prefixes', []) for a JSON object `data`.
Prefixes(kind, body) == IF kind = "no_prefixes" THEN <<>> ELSE body

\* fetch_zscaler_ips, lines 34-43, returning.
FetchReturns ==
    /\ pc = "fetch"
    /\ \E kind \in ReturningResponses, body \in RangeLists :
        /\ kind = "no_prefixes" => body = <<>>
        /\ kind = "prefixes_object" => Cardinality(SetOf(body)) = Len(body)
        /\ response' = kind
        /\ ip_ranges' = Prefixes(kind, body)
        /\ rerun' = (prev_ok /\ Prefixes(kind, body) = ip_ranges)
    /\ calls' = Append(calls, Call("fetch", "", TRUE))
    /\ pc' = "connect"
    /\ UNCHANGED <<store, iplist_name, runs, exit_code, error, prev_ok, iplists,
                   existing_iplist, diff, iplist, returned, was_updated, provision_failed>>

\* main, lines 298-316: PolicyComputeEngine(...), set_credentials, set_tls_settings.
ConnectFails ==
    /\ pc = "connect"
    /\ FatalExit("connect")
    /\ UNCHANGED <<store, iplist_name, runs, response, ip_ranges, prev_ok, rerun, iplists,
                   existing_iplist, diff, iplist, returned, was_updated, provision_failed,
                   calls>>

ConnectReturns ==
    /\ pc = "connect"
    /\ pc' = "search"
    /\ UNCHANGED <<store, iplist_name, runs, exit_code, error, response, ip_ranges, prev_ok,
                   rerun, iplists, existing_iplist, diff, iplist, returned, was_updated,
                   provision_failed, calls>>

\* create_or_update_iplist, line 127 raising: handled at lines 181-183.
SearchFails ==
    /\ pc = "search"
    /\ calls' = Append(calls, Call("search", "", FALSE))
    /\ FatalExit("search")
    /\ UNCHANGED <<store, iplist_name, runs, response, ip_ranges, prev_ok, rerun, iplists,
                   existing_iplist, diff, iplist, returned, was_updated, provision_failed>>

\* create_or_update_iplist, lines 127-145 and 166: the search returns, the first
\* match (if any) is compared, and an unchanged list is returned as it is.
SearchReturns ==
    /\ pc = "search"
    /\ LET lst == SearchResult(iplist_name) IN
        /\ calls' = Append(calls, Call("search", "", TRUE))
        /\ iplists' = lst
        /\ IF Found(lst)
           THEN LET e == AsIPList(Head(lst))
                    d == compare_ip_ranges(RangesOrEmpty(e), ip_ranges)
                IN  /\ existing_iplist' = e
                    /\ diff' = d
                    /\ IF ~d.changed
                       THEN /\ iplist' = e
                            /\ returned' = TRUE
                            /\ was_updated' = FALSE
                            /\ pc' = "returned"
                       ELSE /\ pc' = "update"
                            /\ UNCHANGED <<iplist, returned, was_updated>>
           ELSE /\ pc' = "create"
                /\ UNCHANGED <<existing_iplist, diff, iplist, returned, was_updated>>
    /\ UNCHANGED <<store, iplist_name, runs, exit_code, error, response, ip_ranges, prev_ok,
                   rerun, provision_failed>>

\* line 158 raising: pce.ip_lists.update is refused, nothing is stored.
UpdateFails ==
    /\ pc = "update"
    /\ calls' = Append(calls, Call("update", existing_iplist.href, FALSE))
    /\ FatalExit("update")
    /\ UNCHANGED <<store, iplist_name, runs, response, ip_ranges, prev_ok, rerun, iplists,
                   existing_iplist, diff, iplist, returned, was_updated, provision_failed>>

\* lines 148-158: the PCE accepts the update of existing_iplist.href.
UpdateReturns ==
    /\ pc = "update"
    /\ store' = [store EXCEPT ![existing_iplist.href] = NewResource(iplist_name, ip_ranges)]
    /\ calls' = Append(calls, Call("update", existing_iplist.href, TRUE))
    /\ pc' = "refetch"
    /\ UNCHANGED <<iplist_name, runs, exit_code, error, response, ip_ranges, prev_ok, rerun,
                   iplists, existing_iplist, diff, iplist, returned, was_updated,
                   provision_failed>>

\* line 161 raising: get_by_reference fails after the update was stored.
RefetchFails ==
    /\ pc = "refetch"
    /\ calls' = Append(calls, Call("get_by_reference", existing_iplist.href, FALSE))
    /\ FatalExit("refetch")
    /\ UNCHANGED <<store, iplist_name, runs, response, ip_ranges, prev_ok, rerun, iplists,
                   existing_iplist, diff, iplist, returned, was_updated, provision_failed>>

\* lines 161-165: the re-read resource is returned with was_updated = True.
RefetchReturns ==
    /\ pc = "refetch"
    /\ calls' = Append(calls, Call("get_by_reference", existing_iplist.href, TRUE))
    /\ iplist' = AsIPList(existing_iplist.href)
    /\ returned' = TRUE
    /\ was_updated' = TRUE
    /\ pc' = "returned"
    /\ UNCHANGED <<store, iplist_name, runs, exit_code, error, response, ip_ranges, prev_ok,
                   rerun, iplists, existing_iplist, diff, provision_failed>>

\* line 176 raising: pce.ip_lists.create is refused, nothing is stored.
CreateFails ==
    /\ pc = "create"
    /\ calls' = Append(calls, Call("create", "", FALSE))
    /\ FatalExit("create")
    /\ UNCHANGED <<store, iplist_name, runs, response, ip_ranges, prev_ok, rerun, iplists,
                   existing_iplist, diff, iplist, returned, was_updated, provision_failed>>

\* lines 168-179: the PCE stores the new list and returns it.
CreateReturns ==
    /\ pc = "create"
    /\ FreeHrefs # {}
    /\ LET h == NextHref
           r == NewResource(iplist_name, ip_ranges)
       IN  /\ store' = [store EXCEPT ![h] = r]
           /\ calls' = Append(calls, Call("create", h, TRUE))
           /\ iplist' = [href |-> h, name |-> r.name, has_ranges |-> TRUE,
                         ip_ranges |-> r.ip_ranges]
    /\ returned' = TRUE
    /\ was_updated' = TRUE
    /\ pc' = "returned"
    /\ UNCHANGED <<iplist_name, runs, exit_code, error, response, ip_ranges, prev_ok, rerun,
                   iplists, existing_iplist, diff, provision_failed>>

\* Faulty variant of the line-323 test: the condition negated.
ShouldProvision_negated(w) == ~w

\* line 323: if was_updated
ShouldProvision(w) == w

\* main, lines 319-328: provision only if the list was updated, else finish.
AfterReconcile ==
    /\ pc = "returned"
    /\ IF ShouldProvision(was_updated)
       THEN pc' = "provision" /\ UNCHANGED exit_code
       ELSE pc' = "exited" /\ exit_code' = 0
    /\ UNCHANGED <<store, iplist_name, runs, error, response, ip_ranges, prev_ok, rerun,
                   iplists, existing_iplist, diff, iplist, returned, was_updated,
                   provision_failed, calls>>

\* Faulty variant of the provisioning handler: it exits like the other handlers.
HandleProvisionError_fatal ==
    /\ provision_failed' = TRUE
    /\ FatalExit("provision")

\* lines 198-199: the exception is printed and swallowed; main then runs off its
\* end (line 326) and the interpreter exits 0.
HandleProvisionError ==
    /\ provision_failed' = TRUE
    /\ pc' = "exited"
    /\ exit_code' = 0
    /\ UNCHANGED error

\* provision_policy_changes, lines 189-199, when pce.provision_policy_changes raises.
ProvisionFails ==
    /\ pc = "provision"
    /\ calls' = Append(calls, Call("provision", iplist.href, FALSE))
    /\ HandleProvisionError
    /\ UNCHANGED <<store, iplist_name, runs, response, ip_ranges, prev_ok, rerun, iplists,
                   existing_iplist, diff, iplist, returned, was_updated>>

\* provision_policy_changes, lines 189-197, then main line 326.
ProvisionReturns ==
    /\ pc = "provision"
    /\ calls' = Append(calls, Call("provision", iplist.href, TRUE))
    /\ pc' = "exited"
    /\ exit_code' = 0
    /\ UNCHANGED <<store, iplist_name, runs, error, response, ip_ranges, prev_ok, rerun,
                   iplists, existing_iplist, diff, iplist, returned, was_updated,
                   provision_failed>>

\* The script is started again (line 331): nothing but the PCE's state carries over.
\* ip_ranges and prev_ok remember the last run only to tell whether the next one
\* fetches the same sequence after a successful run.
StartRun ==
    /\ pc = "exited"
    /\ runs < MaxRuns
    /\ runs' = runs + 1
    /\ pc' = "validate"
    /\ prev_ok' = (exit_code = 0)
    /\ ip_ranges' = IF exit_code = 0 THEN ip_ranges ELSE <<>>
    /\ exit_code' = 0
    /\ error' = ""
    /\ response' = ""
    /\ rerun' = FALSE
    /\ iplists' = <<>>
    /\ existing_iplist' = NoIPList
    /\ diff' = NoDiff
    /\ iplist' = NoIPList
    /\ returned' = FALSE
    /\ was_updated' = FALSE
    /\ provision_failed' = FALSE
    /\ calls' = <<>>
    /\ UNCHANGED <<store, iplist_name>>

Next ==
    \/ ValidateArgs
    \/ FetchFails
    \/ FetchReturns
    \/ ConnectFails
    \/ ConnectReturns
    \/ SearchFails
    \/ SearchReturns
    \/ UpdateFails
    \/ UpdateReturns
    \/ RefetchFails
    \/ RefetchReturns
    \/ CreateFails
    \/ CreateReturns
    \/ AfterReconcile
    \/ ProvisionFails
    \/ ProvisionReturns
    \/ StartRun

Spec == Init /\ [][Next]_vars


\* ------------------------------------------------------------- properties

Exited == pc = "exited"

CallIndices(op) == {i \in 1..Len(calls) : calls[i].op = op}

NCalls(op) == Cardinality(CallIndices(op))

Accepted(op) == \E i \in CallIndices(op) : calls[i].ok

PCECalls == {i \in 1..Len(calls) : calls[i].op # "fetch"}

\* C1: in every run, provisioning is invoked if and only if
\* create_or_update_iplist returned was_updated = True; and when the existing
\* list's ranges equal the fetched ranges (as sorted sequences), the run issues
\* no provisioning call.
C1_ProvisionIffChanged ==
    /\ Exited => ((NCalls("provision") > 0) <=> (returned /\ was_updated))
    /\ (diff.compared /\ Sorted(RangesOrEmpty(existing_iplist)) = Sorted(ip_ranges))
          => NCalls("provision") = 0

\* C2: a run that follows a successful run, with the same fetched sequence and
\* the PCE untouched in between, returns was_updated = False and issues no
\* create and no update call.
C2_Idempotence ==
    (Exited /\ exit_code = 0 /\ rerun)
        => (~was_updated /\ NCalls("create") = 0 /\ NCalls("update") = 0)

\* C3: when the search returns no resource, create is called exactly once in
\* the run and update never; when it returns at least one resource (with or
\* without ranges), create is never called.
C3_CreateVsUpdate ==
    Accepted("search") =>
        /\ iplists = <<>> =>
              /\ NCalls("update") = 0
              /\ NCalls("create") <= 1
              /\ Exited => NCalls("create") = 1
        /\ iplists # <<>> => NCalls("create") = 0

C3_Witness ==
    Exited /\ Accepted("search") /\ iplists = <<>> /\ Accepted("create")

C5_ProvisionFailureNotFatal ==
    (Exited /\ provision_failed) =>
        /\ exit_code = 0
        /\ error = ""
        /\ store[iplist.href].present
        /\ store[iplist.href].ip_ranges = ip_ranges

C5_Witness ==
    Exited /\ provision_failed /\ Accepted("update") /\ ip_ranges # <<>>

\* C6: when the response is retrieved but its 'prefixes' field is missing or
\* malformed, the run ends with a non-zero status and issues no policy-engine
\* call.
C6_MissingPrefixesFatal ==
    response \in {"no_prefixes", "prefixes_null", "prefixes_object"} =>
        /\ PCECalls = {}
        /\ Exited => exit_code # 0

\* C7: after a run that exits 0, the list returned by create_or_update_iplist
\* has ranges that, sorted, equal the sorted fetched sequence.
C7_Convergence ==
    (Exited /\ exit_code = 0) =>
        Sorted(RangesOrEmpty(iplist)) = Sorted(ip_ranges)

\* C8: for existing ranges A and new ranges B, compare_ip_ranges returns
\* changed = (sorted(A) # sorted(B)), and when changed, added = B - A and
\* removed = A - B as sets.
C8_DiffSymmetry ==
    diff.compared =>
        LET A == RangesOrEmpty(existing_iplist)
            B == ip_ranges
        IN  /\ diff.changed = (Sorted(A) # Sorted(B))
            /\ diff.changed => /\ diff.added = SetOf(B) \ SetOf(A)
                               /\ diff.removed = SetOf(A) \ SetOf(B)

\* A provisioning request naming the reference of the i-th call's resource
\* follows that call in the run.
ProvisionRequestedAfter(i) ==
    \E j \in CallIndices("provision") : j > i /\ calls[j].href = calls[i].href

Mutations == {i \in CallIndices("create") \cup CallIndices("update") : calls[i].ok}

\* C9: whenever a create or update call was accepted by the PCE in a run, a
\* provisioning request naming that resource's reference is submitted in the
\* same run.
C9_MutationProvisioned ==
    Exited => \A i \in Mutations : ProvisionRequestedAfter(i)

\* C9, amended: whenever a create or update call was accepted and
\* create_or_update_iplist returned, a provisioning request naming that
\* resource's reference is submitted in the same run; when it did not return,
\* the re-fetch after the update failed and the run exited 1 without any
\* provisioning request.
C9_MutationProvisionedIfReturned ==
    Exited => \A i \in Mutations :
        /\ returned => ProvisionRequestedAfter(i)
        /\ ~returned => (error = "refetch" /\ exit_code = 1 /\ NCalls("provision") = 0)

C9_Witness ==
    Exited /\ returned /\ Accepted("update") /\ NCalls("provision") = 1

\* C10: an update call is never issued against the reference of a resource
\* whose name differs from the requested name.
C10_UpdateOnlyExactName ==
    NCalls("update") > 0 => existing_iplist.name = iplist_name

====
